---- MODULE Spec2Model ----
(***************************************************************************)
(* Model of OpenTESArena's Game: the frame loop (Game::loop), the event    *)
(* dispatcher (Game::handleEvents), tick, render, and the deferred panel   *)
(* transitions (setPanel / pushSubPanel / popSubPanel staged by panel      *)
(* callbacks, realized by Game::handlePanelChanges).                       *)
(*                                                                         *)
(* Panels are identified by the integers 1..MaxPanels; Null (0) is the     *)
(* empty std::unique_ptr.  Panel 1 is Panel::defaultPanel.  A panel's      *)
(* handleEvent and tick callbacks are code outside Game.cpp: while one is  *)
(* in flight (pc = "inHandleEvent" / "inTick") it may call the three stage *)
(* operations any number of times, return, or throw.  The other callbacks  *)
(* (render, renderSecondary, resize, onPauseChanged, getCurrentCursor)     *)
(* stage nothing: they are recorded as calls of the step that makes them.  *)
(***************************************************************************)
EXTENDS Integers, Sequences, FiniteSets, TLC

\* ---------------------------------------------------------------- bounds
MaxPanels == 4      \* panel objects ever constructed (the default panel included)
MaxEvents == 2      \* events SDL_PollEvent yields in one drain burst
MaxFrames == 2      \* iterations of the primary game loop

\* ------------------------------------------------------------- constants
Null == 0
DefaultPanel == 1
MIN_FPS == 20

Sizes == {<<800, 600>>}
EventKinds == {"exit", "resize", "screenshot", "other"}
Events ==
  [kind : {"exit", "screenshot", "other"}, w : {0}, h : {0}]
    \cup {[kind |-> "resize", w |-> s[1], h |-> s[2]] : s \in Sizes}
TargetFPSSet == {30, 60}
ElapsedSet == {0, 5000000}
OversleepSet == {0, 40000}
SaveStatus == {0, -1}

VARIABLES
  panel,                 \* Game::panel, the base panel
  subPanels,             \* Game::subPanels, bottom to top
  nextPanel,             \* Game::nextPanel, staged base replacement or Null
  nextSubPanel,          \* Game::nextSubPanel, staged push or Null
  requestedSubPanelPop,  \* Game::requestedSubPanelPop
  running,               \* the local "running" of Game::loop
  pc,                    \* position of the loop
  fault,                 \* diagnostic of the fatal fault that ended the process
  cbPanel,               \* the panel whose handleEvent/tick was called last, or Null
  ev,                    \* the event being dispatched
  polled,                \* events polled so far in this drain burst
  dt,                    \* the frame delta, in microseconds
  pace,                  \* what the pacing step just measured, until the next step
  steps,                 \* the steps of the current iteration so far, in order
  frame,                 \* iterations started
  ticks,                 \* tick() calls in the current iteration
  renders,               \* render() calls in the current iteration
  exitFrame,             \* iteration in which an exit event was dispatched, or 0
  exitPoll,              \* position in its drain burst of that exit event, or 0
  saved,                 \* calls of options.saveChanges() after the loop
  made,                  \* panels constructed so far
  destroyed,             \* panels whose destructor has run
  superseded,            \* panels a later stage call replaced in their slot
  last,                  \* the operation that made the last step
  calls,                 \* what the last step called, in order
  pre                    \* the Game fields when handlePanelChanges last began

vars == <<panel, subPanels, nextPanel, nextSubPanel, requestedSubPanelPop,
          running, pc, fault, cbPanel, ev, polled, dt, pace, steps, frame,
          ticks, renders, exitFrame, exitPoll, saved, made, destroyed, superseded, last,
          calls, pre>>

stack == <<panel, subPanels>>
slots == <<nextPanel, nextSubPanel, requestedSubPanelPop>>
iterv == <<running, frame, ticks, renders, exitFrame, exitPoll, saved, dt, pace>>
loopv == <<iterv, steps>>

\* One call made by a step: the callee, the panel it is made on (or Null),
\* and up to two integer arguments.
Call(op, p, a, b) == [op |-> op, panel |-> p, a |-> a, b |-> b]
NoEvent == [kind |-> "none", w |-> 0, h |-> 0]
NoPace == [frameTime |-> 0, targetFPS |-> 0, over |-> 0]
Bool2Int(x) == IF x THEN 1 ELSE 0

Front(s) == SubSeq(s, 1, Len(s) - 1)

\* A getActivePanel that reads front() where the code reads back().
GetActivePanelOf_Front(subs, base) ==
  IF Len(subs) > 0 THEN subs[1] ELSE base

\* Game::getActivePanel
GetActivePanelOf(subs, base) ==
  IF Len(subs) > 0 THEN subs[Len(subs)] ELSE base

GetActivePanel == GetActivePanelOf(subPanels, panel)

\* ------------------------------------------------------------------ Init
\* The state Game::Game() leaves, at the entry of Game::loop.
Init ==
  /\ panel = DefaultPanel
  /\ subPanels = <<>>
  /\ nextPanel = Null
  /\ nextSubPanel = Null
  /\ requestedSubPanelPop = FALSE
  /\ running = TRUE
  /\ pc = "loopTest"
  /\ fault = "none"
  /\ cbPanel = Null
  /\ ev = NoEvent
  /\ polled = 0
  /\ dt = 0
  /\ pace = NoPace
  /\ steps = <<>>
  /\ frame = 0
  /\ ticks = 0
  /\ renders = 0
  /\ exitFrame = 0
  /\ exitPoll = 0
  /\ saved = 0
  /\ made = 1
  /\ destroyed = {}
  /\ superseded = {}
  /\ last = "Game"
  /\ calls = <<>>
  /\ pre = [panel |-> DefaultPanel, subPanels |-> <<>>, nextPanel |-> Null,
            nextSubPanel |-> Null, requestedSubPanelPop |-> FALSE,
            handler |-> Null, after |-> "none"]

\* ------------------------------------------------- the process ending
\* Debug::crash / a failed DebugAssert: the diagnostic is logged and the
\* process ends; nothing of the loop runs afterwards.
Crash(msg) ==
  /\ pc' = "crashed"
  /\ fault' = msg

InCallback == pc \in {"inHandleEvent", "inTick"}

\* ----------------------------------------------------- stage operations
\* A setPanel that keeps a panel already staged and drops the new one.
SetPanel_KeepFirst(p) ==
  /\ InCallback
  /\ made < MaxPanels
  /\ p = made + 1
  /\ made' = p
  /\ nextPanel' = IF nextPanel # Null THEN nextPanel ELSE p
  /\ destroyed' = IF nextPanel # Null THEN destroyed \cup {p} ELSE destroyed
  /\ superseded' = superseded
  /\ calls' = IF nextPanel # Null THEN <<Call("destroy", p, 0, 0)>> ELSE <<>>
  /\ last' = "setPanel"
  /\ UNCHANGED <<panel, subPanels, nextSubPanel, requestedSubPanelPop, pc, fault,
                 cbPanel, ev, polled, pre>>
  /\ UNCHANGED loopv

\* A setPanel that installs the base panel at once instead of staging it.
SetPanel_Immediate(p) ==
  /\ InCallback
  /\ made < MaxPanels
  /\ p = made + 1
  /\ made' = p
  /\ panel' = p
  /\ destroyed' = destroyed \cup {panel}
  /\ superseded' = superseded
  /\ calls' = <<Call("destroy", panel, 0, 0)>>
  /\ last' = "setPanel"
  /\ UNCHANGED <<subPanels, nextPanel, nextSubPanel, requestedSubPanelPop, pc, fault,
                 cbPanel, ev, polled, pre>>
  /\ UNCHANGED loopv

\* Game::setPanel, called by the callback in flight with a newly made panel.
\* Assigning to the std::unique_ptr destroys a panel still held in the slot.
SetPanel(p) ==
  /\ InCallback
  /\ made < MaxPanels
  /\ p = made + 1
  /\ made' = p
  /\ nextPanel' = p
  /\ destroyed' = IF nextPanel # Null THEN destroyed \cup {nextPanel} ELSE destroyed
  /\ superseded' = IF nextPanel # Null THEN superseded \cup {nextPanel} ELSE superseded
  /\ calls' = IF nextPanel # Null THEN <<Call("destroy", nextPanel, 0, 0)>> ELSE <<>>
  /\ last' = "setPanel"
  /\ UNCHANGED <<panel, subPanels, nextSubPanel, requestedSubPanelPop, pc, fault,
                 cbPanel, ev, polled, pre>>
  /\ UNCHANGED loopv

\* Game::pushSubPanel
PushSubPanel(p) ==
  /\ InCallback
  /\ made < MaxPanels
  /\ p = made + 1
  /\ made' = p
  /\ nextSubPanel' = p
  /\ destroyed' = IF nextSubPanel # Null THEN destroyed \cup {nextSubPanel} ELSE destroyed
  /\ superseded' = IF nextSubPanel # Null THEN superseded \cup {nextSubPanel}
                                          ELSE superseded
  /\ calls' = IF nextSubPanel # Null THEN <<Call("destroy", nextSubPanel, 0, 0)>> ELSE <<>>
  /\ last' = "pushSubPanel"
  /\ UNCHANGED <<panel, subPanels, nextPanel, requestedSubPanelPop, pc, fault,
                 cbPanel, ev, polled, pre>>
  /\ UNCHANGED loopv

\* A popSubPanel without its second DebugAssert.
PopSubPanel_NoEmptyCheck ==
  /\ InCallback
  /\ last' = "popSubPanel"
  /\ calls' = <<>>
  /\ IF requestedSubPanelPop
       THEN /\ Crash("Already scheduled to pop sub-panel.")
            /\ UNCHANGED requestedSubPanelPop
       ELSE /\ requestedSubPanelPop' = TRUE
            /\ UNCHANGED <<pc, fault>>
  /\ UNCHANGED <<panel, subPanels, nextPanel, nextSubPanel, cbPanel, ev, polled,
                 made, destroyed, superseded, pre>>
  /\ UNCHANGED loopv

\* Game::popSubPanel: two DebugAsserts, then the flag.
PopSubPanel ==
  /\ InCallback
  /\ last' = "popSubPanel"
  /\ calls' = <<>>
  /\ IF requestedSubPanelPop
       THEN /\ Crash("Already scheduled to pop sub-panel.")
            /\ UNCHANGED requestedSubPanelPop
       ELSE IF ~(Len(subPanels) > 0)
         THEN /\ Crash("No sub-panels to pop.")
              /\ UNCHANGED requestedSubPanelPop
         ELSE /\ requestedSubPanelPop' = TRUE
              /\ UNCHANGED <<pc, fault>>
  /\ UNCHANGED <<panel, subPanels, nextPanel, nextSubPanel, cbPanel, ev, polled,
                 made, destroyed, superseded, pre>>
  /\ UNCHANGED loopv

\* The callback in flight returns to handleEvents / tick, which goes on to
\* handlePanelChanges.
CallbackReturn ==
  /\ InCallback
  /\ pc' = IF pc = "inHandleEvent" THEN "applyEvent" ELSE "applyTick"
  /\ last' = "return"
  /\ calls' = <<>>
  /\ UNCHANGED <<panel, subPanels, nextPanel, nextSubPanel, requestedSubPanelPop,
                 fault, cbPanel, ev, polled, made, destroyed, superseded, pre>>
  /\ UNCHANGED loopv

\* A catch block that logs the exception and lets the loop go on.
CallbackThrow_Swallow ==
  /\ InCallback
  /\ pc' = IF pc = "inHandleEvent" THEN "pollEvent" ELSE "render"
  /\ last' = "throw"
  /\ calls' = <<>>
  /\ UNCHANGED <<panel, subPanels, nextPanel, nextSubPanel, requestedSubPanelPop,
                 fault, cbPanel, ev, polled, made, destroyed, superseded, pre>>
  /\ UNCHANGED loopv

\* The callback in flight throws a std::exception: the catch block of
\* Game::loop around the phase calls DebugCrash.
CallbackThrow ==
  /\ InCallback
  /\ Crash(IF pc = "inHandleEvent" THEN "handleEvents() exception!"
                                   ELSE "tick() exception!")
  /\ last' = "throw"
  /\ calls' = <<>>
  /\ UNCHANGED <<panel, subPanels, nextPanel, nextSubPanel, requestedSubPanelPop,
                 cbPanel, ev, polled, made, destroyed, superseded, pre>>
  /\ UNCHANGED loopv

\* -------------------------------------------------- handlePanelChanges
\* The Game fields handlePanelChanges works on, with the calls it makes.
Fields ==
  [panel |-> panel, subPanels |-> subPanels, nextPanel |-> nextPanel,
   nextSubPanel |-> nextSubPanel, requestedSubPanelPop |-> requestedSubPanelPop,
   destroyed |-> destroyed, calls |-> <<>>, ub |-> FALSE]

\* A pop step that tells nobody.
PopStep_Silent(s) ==
  IF s.requestedSubPanelPop
    THEN IF Len(s.subPanels) = 0
      THEN [s EXCEPT !.ub = TRUE, !.requestedSubPanelPop = FALSE]
      ELSE LET top == s.subPanels[Len(s.subPanels)]
           IN [s EXCEPT
                 !.subPanels = Front(s.subPanels),
                 !.requestedSubPanelPop = FALSE,
                 !.destroyed = @ \cup {top},
                 !.calls = @ \o <<Call("pop_back", top, 0, 0),
                                  Call("destroy", top, 0, 0)>>]
    ELSE s

\* A pop step that unpauses the new top sub-panel, and nobody when the pop
\* has emptied the sequence.
PopStep_UnpauseSubPanelOnly(s) ==
  IF s.requestedSubPanelPop
    THEN IF Len(s.subPanels) = 0
      THEN [s EXCEPT !.ub = TRUE, !.requestedSubPanelPop = FALSE]
      ELSE LET top  == s.subPanels[Len(s.subPanels)]
               subs == Front(s.subPanels)
           IN [s EXCEPT
                 !.subPanels = subs,
                 !.requestedSubPanelPop = FALSE,
                 !.destroyed = @ \cup {top},
                 !.calls = @ \o <<Call("pop_back", top, 0, 0),
                                  Call("destroy", top, 0, 0)>>
                             \o (IF Len(subs) > 0
                                   THEN <<Call("onPauseChanged", subs[Len(subs)],
                                               Bool2Int(FALSE), 0)>>
                                   ELSE <<>>)]
    ELSE s

\* Lines 291-299.  pop_back() on an empty vector is undefined behaviour (ub).
PopStep(s) ==
  IF s.requestedSubPanelPop
    THEN IF Len(s.subPanels) = 0
      THEN [s EXCEPT !.ub = TRUE, !.requestedSubPanelPop = FALSE]
      ELSE LET top  == s.subPanels[Len(s.subPanels)]
               subs == Front(s.subPanels)
           IN [s EXCEPT
                 !.subPanels = subs,
                 !.requestedSubPanelPop = FALSE,
                 !.destroyed = @ \cup {top},
                 !.calls = @ \o <<Call("pop_back", top, 0, 0),
                                  Call("destroy", top, 0, 0),
                                  Call("onPauseChanged",
                                       GetActivePanelOf(subs, s.panel),
                                       Bool2Int(FALSE), 0)>>]
    ELSE s

\* A push step that notifies after push_back, so the pushed panel is told.
PushStep_NotifyAfter(s) ==
  IF s.nextSubPanel # Null
    THEN [s EXCEPT
            !.calls = @ \o <<Call("push_back", s.nextSubPanel, 0, 0),
                             Call("onPauseChanged", s.nextSubPanel,
                                  Bool2Int(TRUE), 0)>>,
            !.subPanels = Append(@, s.nextSubPanel),
            !.nextSubPanel = Null]
    ELSE s

\* Lines 302-309.  The moved-from unique_ptr is left null.
PushStep(s) ==
  IF s.nextSubPanel # Null
    THEN [s EXCEPT
            !.calls = @ \o <<Call("onPauseChanged",
                                  GetActivePanelOf(s.subPanels, s.panel),
                                  Bool2Int(TRUE), 0),
                             Call("push_back", s.nextSubPanel, 0, 0)>>,
            !.subPanels = Append(@, s.nextSubPanel),
            !.nextSubPanel = Null]
    ELSE s

\* Lines 313-316.  Move-assigning to this->panel destroys the old base panel.
ReplaceStep(s) ==
  IF s.nextPanel # Null
    THEN [s EXCEPT
            !.calls = @ \o <<Call("replace", s.nextPanel, 0, 0),
                             Call("destroy", s.panel, 0, 0)>>,
            !.destroyed = @ \cup {s.panel},
            !.panel = s.nextPanel,
            !.nextPanel = Null]
    ELSE s

\* The three steps with the push ahead of the pop.
ApplySteps_PushFirst(s) == ReplaceStep(PopStep(PushStep(s)))

ApplySteps(s) == ReplaceStep(PushStep(PopStep(s)))

UBOutcomes == {"crash", "continue"}

\* A handleEvents that calls handlePanelChanges once after the drain loop
\* instead of after every event.
HandlePanelChanges_OncePerBurst ==
  /\ pc \in {"applyEvent", "applyTick"}
  /\ LET s == IF pc = "applyEvent" THEN Fields ELSE ApplySteps(Fields)
     IN /\ panel' = s.panel
        /\ subPanels' = s.subPanels
        /\ nextPanel' = s.nextPanel
        /\ nextSubPanel' = s.nextSubPanel
        /\ requestedSubPanelPop' = s.requestedSubPanelPop
        /\ destroyed' = s.destroyed
        /\ calls' = s.calls
        /\ pc' = IF pc = "applyEvent" THEN "pollEvent" ELSE "render"
        /\ UNCHANGED fault
  /\ pre' = [panel |-> panel, subPanels |-> subPanels, nextPanel |-> nextPanel,
             nextSubPanel |-> nextSubPanel,
             requestedSubPanelPop |-> requestedSubPanelPop,
             handler |-> cbPanel,
             after |-> IF pc = "applyEvent" THEN "event" ELSE "tick"]
  /\ last' = "handlePanelChanges"
  /\ ev' = NoEvent
  /\ steps' = IF pc = "applyTick" THEN Append(steps, "handlePanelChanges") ELSE steps
  /\ UNCHANGED <<cbPanel, polled, made, superseded>>
  /\ UNCHANGED iterv

\* Game::handlePanelChanges, called by handleEvents after each event and by
\* tick after the active panel's tick.
HandlePanelChanges ==
  /\ pc \in {"applyEvent", "applyTick"}
  /\ LET s == ApplySteps(Fields)
     IN /\ panel' = s.panel
        /\ subPanels' = s.subPanels
        /\ nextPanel' = s.nextPanel
        /\ nextSubPanel' = s.nextSubPanel
        /\ requestedSubPanelPop' = s.requestedSubPanelPop
        /\ destroyed' = s.destroyed
        /\ calls' = s.calls
        /\ \E o \in UBOutcomes :
             IF s.ub /\ o = "crash"
               THEN Crash("undefined behaviour")
               ELSE /\ pc' = IF pc = "applyEvent" THEN "pollEvent" ELSE "render"
                    /\ UNCHANGED fault
  /\ pre' = [panel |-> panel, subPanels |-> subPanels, nextPanel |-> nextPanel,
             nextSubPanel |-> nextSubPanel,
             requestedSubPanelPop |-> requestedSubPanelPop,
             handler |-> cbPanel,
             after |-> IF pc = "applyEvent" THEN "event" ELSE "tick"]
  /\ last' = "handlePanelChanges"
  /\ ev' = NoEvent
  /\ steps' = IF pc = "applyTick" THEN Append(steps, "handlePanelChanges") ELSE steps
  /\ UNCHANGED <<cbPanel, polled, made, superseded>>
  /\ UNCHANGED iterv

\* ------------------------------------------------------------ Game::loop
Min(a, b) == IF a < b THEN a ELSE b

\* Longest allowed frame time in microseconds (line 412).
MaximumMS == 1000000 \div MIN_FPS

\* Fastest allowed frame time in microseconds (lines 424-425).
MinimumMS(targetFPS) == 1000000 \div targetFPS

\* Lines 428-435: the frame time after the optional sleep.  sleep_for blocks
\* for at least sleepTime; "over" is what it blocks beyond that.
PacedFrameTime(frameTime, targetFPS, over) ==
  IF frameTime < MinimumMS(targetFPS)
    THEN frameTime + (MinimumMS(targetFPS) - frameTime) + over
    ELSE frameTime

\* A clamp written with fmax where the code has fmin.
FrameDelta_Fmax(frameTime) == IF frameTime > MaximumMS THEN frameTime ELSE MaximumMS

\* Line 438, in microseconds: fmin(frameTime, maximumMS).
FrameDelta(frameTime) == Min(frameTime, MaximumMS)

\* while (running), line 418.
LoopTest ==
  /\ pc = "loopTest"
  /\ IF running
       THEN /\ frame < MaxFrames
            /\ pc' = "pace"
            /\ frame' = frame + 1
            /\ ticks' = 0
            /\ renders' = 0
            /\ steps' = <<>>
       ELSE /\ pc' = "save"
            /\ UNCHANGED <<frame, ticks, renders, steps>>
  /\ last' = "loopTest"
  /\ calls' = <<>>
  /\ UNCHANGED <<panel, subPanels, nextPanel, nextSubPanel, requestedSubPanelPop,
                 running, fault, cbPanel, ev, polled, dt, pace, exitFrame, exitPoll, saved, made,
                 destroyed, superseded, pre>>

\* The subsystem updates with the audio manager ahead of the input manager.
SampleCalls_AudioFirst(frameTime, targetFPS, delta) ==
  (IF frameTime < MinimumMS(targetFPS)
     THEN <<Call("sleep_for", Null, MinimumMS(targetFPS) - frameTime, 0)>>
     ELSE <<>>)
  \o <<Call("audioManager.update", Null, 0, 0),
       Call("inputManager.update", Null, 0, 0),
       Call("fpsCounter.updateFrameTime", Null, delta, 0)>>

\* The calls of lines 427-447, in order.
SampleCalls(frameTime, targetFPS, delta) ==
  (IF frameTime < MinimumMS(targetFPS)
     THEN <<Call("sleep_for", Null, MinimumMS(targetFPS) - frameTime, 0)>>
     ELSE <<>>)
  \o <<Call("inputManager.update", Null, 0, 0),
       Call("audioManager.update", Null, 0, 0),
       Call("fpsCounter.updateFrameTime", Null, delta, 0)>>

\* The steps of the iteration made by the calls cs of lines 420-447: the
\* pacing itself, then each subsystem update in the order it is called.
StepOf(op) ==
  CASE op = "inputManager.update" -> "input"
    [] op = "audioManager.update" -> "audio"
    [] op = "fpsCounter.updateFrameTime" -> "fps"
    [] OTHER -> "pace"

SampleSteps(cs) ==
  LET u == SelectSeq(cs, LAMBDA c : c.op # "sleep_for")
  IN <<"pace">> \o [i \in 1..Len(u) |-> StepOf(u[i].op)]

\* Lines 420-447: pacing, then the input, audio and FPS counter updates.
PaceAndSample(frameTime, targetFPS, over) ==
  /\ pc = "pace"
  /\ LET delta == FrameDelta(PacedFrameTime(frameTime, targetFPS, over))
     IN /\ dt' = delta
        /\ calls' = SampleCalls(frameTime, targetFPS, delta)
        /\ steps' = steps \o SampleSteps(SampleCalls(frameTime, targetFPS, delta))
  /\ pace' = [frameTime |-> frameTime, targetFPS |-> targetFPS, over |-> over]
  /\ pc' = "pollEvent"
  /\ polled' = 0
  /\ last' = "pace"
  /\ UNCHANGED <<panel, subPanels, nextPanel, nextSubPanel, requestedSubPanelPop,
                 running, fault, cbPanel, ev, frame, ticks, renders, exitFrame, exitPoll,
                 saved, made, destroyed, superseded, pre>>

\* ---------------------------------------------------- Game::handleEvents
\* A resize pass that walks the panels from the top of the stack down.
ResizeCalls_TopDown(e, base, subs) ==
  IF e.kind = "resize"
    THEN <<Call("resizeWindow", Null, e.w, e.h)>>
         \o [i \in 1..Len(subs) |-> Call("resize", subs[Len(subs) + 1 - i], e.w, e.h)]
         \o <<Call("resize", base, e.w, e.h)>>
    ELSE <<>>

\* Lines 335-350: the window, then the base panel, then each sub-panel.
ResizeCalls(e, base, subs) ==
  IF e.kind = "resize"
    THEN <<Call("resizeWindow", Null, e.w, e.h), Call("resize", base, e.w, e.h)>>
         \o [i \in 1..Len(subs) |-> Call("resize", subs[i], e.w, e.h)]
    ELSE <<>>

\* Lines 352-358; status is what SDL_SaveBMP returns.
ScreenshotCalls(e, status) ==
  IF e.kind = "screenshot"
    THEN <<Call("saveScreenshot", Null, status, 0)>>
    ELSE <<>>

\* A dispatcher that forwards only the events it did not handle itself.
ForwardCalls_OnlyOther(e, base, subs) ==
  IF e.kind = "other"
    THEN <<Call("handleEvent", GetActivePanelOf(subs, base), e.w, e.h)>>
    ELSE <<>>

\* A dispatcher that forwards the event to every panel, as it does a resize.
ForwardCalls_Broadcast(e, base, subs) ==
  <<Call("handleEvent", base, e.w, e.h)>>
  \o [i \in 1..Len(subs) |-> Call("handleEvent", subs[i], e.w, e.h)]

\* Lines 360-361: the event goes to the active panel.
ForwardCalls(e, base, subs) ==
  <<Call("handleEvent", GetActivePanelOf(subs, base), e.w, e.h)>>

\* running = !applicationExit: a later event sets the flag again.
RunningAfter_Assign(e, r) == e.kind # "exit"

\* Line 330-333.
RunningAfter(e, r) == IF e.kind = "exit" THEN FALSE ELSE r

\* One pass of the while loop of handleEvents, up to the call of the active
\* panel's handleEvent: SDL_PollEvent yields event e.
PollEvent(e, status) ==
  /\ pc = "pollEvent"
  /\ polled < MaxEvents
  /\ polled' = polled + 1
  /\ steps' = IF polled = 0 THEN Append(steps, "handleEvents") ELSE steps
  /\ pace' = NoPace
  /\ ev' = e
  /\ running' = RunningAfter(e, running)
  /\ exitFrame' = IF e.kind = "exit" /\ exitFrame = 0 THEN frame ELSE exitFrame
  /\ exitPoll' = IF e.kind = "exit" /\ exitFrame = 0 THEN polled + 1 ELSE exitPoll
  /\ last' = "pollEvent"
  /\ IF e.kind = "screenshot" /\ status # 0
       THEN /\ Crash("Failed to save screenshot")
            /\ calls' = ResizeCalls(e, panel, subPanels) \o ScreenshotCalls(e, status)
            /\ UNCHANGED cbPanel
       ELSE /\ pc' = "inHandleEvent"
            /\ cbPanel' = GetActivePanel
            /\ calls' = ResizeCalls(e, panel, subPanels) \o ScreenshotCalls(e, status)
                          \o ForwardCalls(e, panel, subPanels)
            /\ UNCHANGED fault
  /\ UNCHANGED <<panel, subPanels, nextPanel, nextSubPanel, requestedSubPanelPop,
                 dt, frame, ticks, renders, saved, made, destroyed, superseded, pre>>

\* ------------------------------------------------------------ Game::tick
\* SDL_PollEvent yields nothing: handleEvents returns, and tick calls the
\* active panel's tick (line 371) with dt, which the loop does not read again.
Tick ==
  /\ pc = "pollEvent"
  /\ pc' = "inTick"
  /\ cbPanel' = GetActivePanel
  /\ ticks' = ticks + 1
  /\ calls' = <<Call("tick", GetActivePanel, dt, 0)>>
  /\ dt' = 0
  /\ pace' = NoPace
  /\ steps' = (IF polled = 0 THEN Append(steps, "handleEvents") ELSE steps)
                 \o <<"tick">>
  /\ last' = "tick"
  /\ UNCHANGED <<panel, subPanels, nextPanel, nextSubPanel, requestedSubPanelPop,
                 running, fault, ev, polled, frame, renders, exitFrame, exitPoll, saved, made,
                 destroyed, superseded, pre>>

\* ---------------------------------------------------------- Game::render
\* A render whose secondary pass and cursor come from the base panel.
RenderCalls_SecondaryBase(base, subs, hasCursor) ==
  <<Call("render", base, 0, 0)>>
  \o [i \in 1..Len(subs) |-> Call("render", subs[i], 0, 0)]
  \o <<Call("renderSecondary", base, 0, 0),
       Call("getCurrentCursor", base, Bool2Int(hasCursor), 0)>>
  \o (IF hasCursor THEN <<Call("drawCursor", base, 0, 0)>> ELSE <<>>)
  \o <<Call("present", Null, 0, 0)>>

\* Lines 380-406 in order; hasCursor is whether getCurrentCursor().first is
\* not null.
RenderCalls(base, subs, hasCursor) ==
  <<Call("render", base, 0, 0)>>
  \o [i \in 1..Len(subs) |-> Call("render", subs[i], 0, 0)]
  \o <<Call("renderSecondary", GetActivePanelOf(subs, base), 0, 0),
       Call("getCurrentCursor", GetActivePanelOf(subs, base), Bool2Int(hasCursor), 0)>>
  \o (IF hasCursor
        THEN <<Call("drawCursor", GetActivePanelOf(subs, base), 0, 0)>>
        ELSE <<>>)
  \o <<Call("present", Null, 0, 0)>>

\* Game::render.  n is the number of calls made before one throws
\* (n = all of them: nothing throws).
Render(hasCursor, n) ==
  /\ pc = "render"
  /\ LET all == RenderCalls(panel, subPanels, hasCursor)
     IN /\ n \in 0..Len(all)
        /\ calls' = SubSeq(all, 1, n)
        /\ IF n < Len(all)
             THEN Crash("render() exception!")
             ELSE /\ pc' = "loopTest"
                  /\ UNCHANGED fault
  /\ renders' = renders + 1
  /\ steps' = Append(steps, "render")
  /\ last' = "render"
  /\ UNCHANGED <<panel, subPanels, nextPanel, nextSubPanel, requestedSubPanelPop,
                 running, cbPanel, ev, polled, dt, pace, frame, ticks, exitFrame, exitPoll,
                 saved, made, destroyed, superseded, pre>>

\* Line 482, after the loop.
SaveChanges ==
  /\ pc = "save"
  /\ pc' = "done"
  /\ saved' = saved + 1
  /\ calls' = <<Call("options.saveChanges", Null, 0, 0)>>
  /\ last' = "saveChanges"
  /\ UNCHANGED <<panel, subPanels, nextPanel, nextSubPanel, requestedSubPanelPop,
                 running, fault, cbPanel, ev, polled, dt, pace, steps, frame, ticks,
                 renders, exitFrame, exitPoll, made, destroyed, superseded, pre>>

\* --------------------------------------------------------- specification
MaxRenderCalls == MaxPanels + 4

Next ==
  \/ LoopTest
  \/ \E ft \in ElapsedSet, fps \in TargetFPSSet, over \in OversleepSet :
       PaceAndSample(ft, fps, over)
  \/ \E e \in Events, status \in SaveStatus : PollEvent(e, status)
  \/ \E p \in 1..MaxPanels : SetPanel(p)
  \/ \E p \in 1..MaxPanels : PushSubPanel(p)
  \/ PopSubPanel
  \/ CallbackReturn
  \/ CallbackThrow
  \/ HandlePanelChanges
  \/ Tick
  \/ \E c \in BOOLEAN, n \in 0..MaxRenderCalls : Render(c, n)
  \/ SaveChanges

Spec == Init /\ [][Next]_vars

\* The pacing step alone, on a wide range of measured frame times (in
\* microseconds, up to a 5 second stall and beyond), target frame rates and
\* oversleeps: the first iteration of the loop up to the FPS counter update.
WideElapsed ==
  {0, 1, 999, 1000, 16665, 16666, 16667, 33333, 49999, 50000, 50001, 66666,
   100000, 999999, 1000000, 5000000, 60000000}
WideTargetFPS == {1, 15, 20, 21, 30, 60, 144, 1000000, 1000001}
WideOversleep == {0, 1, 40000}

PaceNext ==
  \/ LoopTest
  \/ \E ft \in WideElapsed, fps \in WideTargetFPS, over \in WideOversleep :
       PaceAndSample(ft, fps, over)

PaceSpec == Init /\ [][PaceNext]_vars

\* ------------------------------------------------------------- the claims
\* The top of a sub-panel sequence, or the base panel under an empty one.
TopOr(subs, base) == IF subs = <<>> THEN base ELSE subs[Len(subs)]

Applied == last = "handlePanelChanges"

\* The calls of cs made to callee op, in order.
CallsTo(cs, op) == SelectSeq(cs, LAMBDA c : c.op = op)

\* The stack mutations among the calls cs, in order.
RealizedOps(cs) ==
  LET m == SelectSeq(cs, LAMBDA c : c.op \in {"pop_back", "push_back", "replace"})
  IN [i \in 1..Len(m) |-> m[i].op]

\* The mutations staged in the slots snapshot q, in the order pop, push, replace.
StagedOps(q) ==
  (IF q.requestedSubPanelPop THEN <<"pop_back">> ELSE <<>>)
  \o (IF q.nextSubPanel # Null THEN <<"push_back">> ELSE <<>>)
  \o (IF q.nextPanel # Null THEN <<"replace">> ELSE <<>>)

\* C1: whatever the callback staged, one handlePanelChanges realizes at most
\* one pop, one push and one base replacement, each exactly when its slot was
\* staged, in the order pop, push, base replacement, and leaves every slot empty.
C1_ApplyOrder ==
  Applied =>
    /\ RealizedOps(calls) = StagedOps(pre)
    /\ nextPanel = Null /\ nextSubPanel = Null /\ ~requestedSubPanelPop

C1_Witness ==
  /\ Applied
  /\ pre.requestedSubPanelPop /\ pre.nextSubPanel # Null /\ pre.nextPanel # Null
  /\ RealizedOps(calls) = <<"pop_back", "push_back", "replace">>

\* C2: setPanel, pushSubPanel and popSubPanel leave the base panel, the
\* sub-panel sequence and the active panel alone; no step taken while a
\* handleEvent or tick callback is in flight, and no dispatch or render step
\* (which run resize, render and renderSecondary), changes the stack; the
\* stack changes only in handlePanelChanges, which runs right after the
\* callback has returned.
C2_DeferredMutation ==
  [][ /\ (last' \in {"setPanel", "pushSubPanel", "popSubPanel"}
            => /\ panel' = panel /\ subPanels' = subPanels
               /\ TopOr(subPanels', panel') = TopOr(subPanels, panel))
      /\ (InCallback => panel' = panel /\ subPanels' = subPanels)
      /\ (panel' # panel \/ subPanels' # subPanels
            => /\ last' = "handlePanelChanges"
               /\ last = "return"
               /\ pc \in {"applyEvent", "applyTick"})
      /\ (last' = "handlePanelChanges" => last = "return") ]_vars

C2_Witness ==
  /\ InCallback
  /\ nextPanel # Null /\ nextSubPanel # Null /\ requestedSubPanelPop
  /\ last \in {"setPanel", "pushSubPanel", "popSubPanel"}
  /\ panel = DefaultPanel /\ Len(subPanels) = 1

\* C3: popSubPanel ends the process with the "double pop" diagnostic when a
\* pop is already staged, with the "nothing to pop" diagnostic when there is
\* no sub-panel, and otherwise sets the flag and raises nothing.
C3_PopFaults ==
  [][ last' = "popSubPanel" =>
        /\ (requestedSubPanelPop
              => pc' = "crashed" /\ fault' = "Already scheduled to pop sub-panel.")
        /\ (subPanels = <<>>
              => pc' = "crashed" /\ fault' = "No sub-panels to pop.")
        /\ (~requestedSubPanelPop /\ subPanels # <<>>
              => requestedSubPanelPop' /\ fault' = "none" /\ pc' = pc) ]_vars

C3_Witness ==
  /\ last = "popSubPanel"
  /\ pc = "crashed"
  /\ fault = "Already scheduled to pop sub-panel."
  /\ requestedSubPanelPop /\ subPanels # <<>>

\* C4: after an apply that realizes a push the active panel is the pushed
\* panel; after one that realizes a pop and no push it is the new top of the
\* sequence, or the base panel when the sequence has become empty.
C4_ActiveAfterApply ==
  Applied =>
    /\ (pre.nextSubPanel # Null => GetActivePanel = pre.nextSubPanel)
    /\ (pre.requestedSubPanelPop /\ pre.nextSubPanel = Null
          => /\ subPanels = Front(pre.subPanels)
             /\ GetActivePanel = IF Len(pre.subPanels) > 1
                                   THEN pre.subPanels[Len(pre.subPanels) - 1]
                                   ELSE panel
             /\ (pre.nextPanel = Null => panel = pre.panel))

C4_Witness ==
  /\ Applied
  /\ pre.requestedSubPanelPop /\ pre.nextSubPanel = Null
  /\ Len(pre.subPanels) = 2
  /\ GetActivePanel = pre.subPanels[1]

\* C5: in an apply that realizes a push, the panel that was active just
\* before the push (the stack as the pop step left it) gets onPauseChanged(true)
\* right before push_back; in one that realizes a pop, the panel the pop
\* exposes gets onPauseChanged(false) after pop_back.
C5_PauseNotifications ==
  Applied =>
    LET afterPop == IF pre.requestedSubPanelPop THEN Front(pre.subPanels)
                                                ELSE pre.subPanels
    IN /\ (pre.nextSubPanel # Null =>
             \E i \in 1..Len(calls) - 1 :
               /\ calls[i] = Call("onPauseChanged", TopOr(afterPop, pre.panel), 1, 0)
               /\ calls[i + 1] = Call("push_back", pre.nextSubPanel, 0, 0)
               /\ \A j \in 1..Len(calls) :
                    calls[j].op = "onPauseChanged" /\ calls[j].a = 1 => j = i)
       /\ (pre.requestedSubPanelPop =>
             \E i, j \in 1..Len(calls) :
               /\ i < j
               /\ calls[i] = Call("pop_back", pre.subPanels[Len(pre.subPanels)], 0, 0)
               /\ calls[j] = Call("onPauseChanged", TopOr(afterPop, pre.panel), 0, 0)
               /\ \A k \in 1..Len(calls) :
                    calls[k].op = "onPauseChanged" /\ calls[k].a = 0 => k = j)

C5_Witness ==
  /\ Applied
  /\ pre.nextSubPanel # Null /\ ~pre.requestedSubPanelPop
  /\ Len(pre.subPanels) = 1
  /\ calls[1] = Call("onPauseChanged", pre.subPanels[1], 1, 0)

Dispatched == last = "pollEvent"

\* C6: handlePanelChanges has run after every event, so each event is
\* delivered with all three slots empty, and when the callback of event k
\* staged a push, event k+1 of the same burst goes to the pushed panel and
\* not to the panel that handled event k.
C6_NextEventToPushed ==
  Dispatched /\ pc = "inHandleEvent" =>
    /\ nextPanel = Null /\ nextSubPanel = Null /\ ~requestedSubPanelPop
    /\ (polled >= 2 /\ pre.nextSubPanel # Null
          => /\ pre.after = "event"
             /\ cbPanel = pre.nextSubPanel
             /\ cbPanel # pre.handler
             /\ CallsTo(calls, "handleEvent")
                  = <<Call("handleEvent", pre.nextSubPanel, ev.w, ev.h)>>)

C6_Witness ==
  /\ Dispatched /\ pc = "inHandleEvent"
  /\ polled = 2
  /\ pre.nextSubPanel # Null /\ pre.handler = DefaultPanel
  /\ cbPanel = pre.nextSubPanel

C8_OnlyActivePanel ==
  /\ (Dispatched /\ ev.kind = "other" =>
        /\ calls = <<Call("handleEvent", TopOr(subPanels, panel), 0, 0)>>
        /\ cbPanel = TopOr(subPanels, panel)
        /\ (subPanels # <<>> =>
              \A c \in 1..Len(calls) :
                /\ calls[c].panel # panel
                /\ \A i \in 1..Len(subPanels) - 1 : calls[c].panel # subPanels[i]))
  /\ (last = "tick" =>
        /\ Len(calls) = 1
        /\ calls[1].op = "tick"
        /\ calls[1].panel = TopOr(subPanels, panel)
        /\ cbPanel = TopOr(subPanels, panel))

C8_Witness ==
  /\ Dispatched /\ ev.kind = "other"
  /\ Len(subPanels) = 2
  /\ calls = <<Call("handleEvent", subPanels[2], 0, 0)>>

\* C9: a resize event (w, h) makes resize(w, h) reach the base panel once and
\* every sub-panel of the sequence once, the base panel first and the
\* sub-panels bottom to top, and no other panel.
C9_ResizeAllPanels ==
  Dispatched /\ ev.kind = "resize" =>
    /\ CallsTo(calls, "resize")
         = <<Call("resize", panel, ev.w, ev.h)>>
           \o [i \in 1..Len(subPanels) |-> Call("resize", subPanels[i], ev.w, ev.h)]
    /\ <<ev.w, ev.h>> \in Sizes
    /\ nextSubPanel = Null /\ nextPanel = Null

C9_Witness ==
  /\ Dispatched /\ ev.kind = "resize"
  /\ Len(subPanels) = 2
  /\ CallsTo(calls, "resize")
       = <<Call("resize", panel, 800, 600), Call("resize", subPanels[1], 800, 600),
           Call("resize", subPanels[2], 800, 600)>>

\* C10: an exit event clears running, and running is never set again; the
\* iteration that dispatched it is the last one started; the loop is left
\* only after that iteration has drained its events, ticked once and rendered
\* once; options.saveChanges() runs once, after the loop, and only then.
C10_ExitFinishesIteration ==
  /\ [][~running => ~running']_vars
  /\ [][last' = "pollEvent" /\ ev'.kind = "exit" => ~running']_vars
  /\ [](~running <=> exitFrame # 0)
  /\ [](~running => frame = exitFrame)
  /\ [](pc \in {"save", "done"} =>
          /\ ~running
          /\ ticks = 1 /\ renders = 1
          /\ polled >= exitPoll)
  /\ [](saved = IF pc = "done" THEN 1 ELSE 0)
  /\ [][pc # "save" => saved' = saved]_vars

C10_Witness ==
  /\ pc = "done"
  /\ saved = 1
  /\ exitFrame = 1 /\ exitPoll = 1 /\ polled = 2
  /\ ticks = 1 /\ renders = 1

\* A render step in which a call threw: it did not get as far as present().
RenderThrew(cs) == cs = <<>> \/ cs[Len(cs)].op # "present"

\* C11: an exception that escapes handleEvents, tick or render ends the
\* process with the diagnostic of that phase; no step follows (no later
\* phase, no retry, no further iteration, no saveChanges), so a handleEvents
\* failure is followed by neither tick nor render of that iteration and a tick
\* failure by no render.
C11_PhaseFaultIsFatal ==
  /\ [][pc # "crashed"]_vars
  /\ [][last' = "throw" =>
          /\ pc' = "crashed"
          /\ fault' = IF pc = "inHandleEvent" THEN "handleEvents() exception!"
                                              ELSE "tick() exception!"
          /\ frame' = frame /\ ticks' = ticks /\ renders' = renders]_vars
  /\ [][last' = "render" /\ RenderThrew(calls') =>
          pc' = "crashed" /\ fault' = "render() exception!"]_vars
  /\ [](fault = "handleEvents() exception!" => ticks = 0 /\ renders = 0)
  /\ [](fault = "tick() exception!" => ticks = 1 /\ renders = 0)
  /\ [](fault = "render() exception!" => ticks = 1 /\ renders = 1)
  /\ [](fault # "none" <=> pc = "crashed")
  /\ [](pc = "crashed" => saved = 0)

C11_Witness ==
  /\ pc = "crashed"
  /\ fault = "tick() exception!"
  /\ last = "throw"
  /\ frame = 2
  /\ nextSubPanel # Null /\ requestedSubPanelPop

\* C12: for every measured frame time >= 0 and every target FPS >= 1 the
\* delta of the pacing step, in whole microseconds, lies in
\* [0, 1000000 / MIN_FPS], that is dt / 1000000 <= 1 / MIN_FPS seconds; a
\* frame time above the clamp yields the clamp itself (a 5 second stall with
\* MIN_FPS = 20 yields 50000), one at or below it that needed no sleep is
\* returned as measured, and that delta is what the FPS counter is given.
C12_DeltaClamped ==
  last = "pace" =>
    /\ pace.frameTime >= 0 /\ pace.targetFPS >= 1
    /\ dt >= 0
    /\ dt <= 1000000 \div MIN_FPS
    /\ dt * MIN_FPS <= 1000000
    /\ (pace.frameTime > 1000000 \div MIN_FPS => dt = 1000000 \div MIN_FPS)
    /\ (pace.frameTime = 5000000 /\ MIN_FPS = 20 => dt = 50000)
    /\ (pace.frameTime <= 1000000 \div MIN_FPS
          /\ pace.frameTime >= 1000000 \div pace.targetFPS
          => dt = pace.frameTime)
    /\ calls[Len(calls)] = Call("fpsCounter.updateFrameTime", Null, dt, 0)

C12_Witness ==
  /\ last = "pace"
  /\ pace.frameTime = 5000000
  /\ MIN_FPS = 20
  /\ dt = 50000

\* The steps of one iteration, in the order the loop is to take them.
IterationOrder ==
  <<"pace", "input", "audio", "fps", "handleEvents", "tick",
    "handlePanelChanges", "render">>

IsPrefix(a, b) == Len(a) <= Len(b) /\ a = SubSeq(b, 1, Len(a))

\* C13: the steps an iteration has taken so far are always an initial part
\* of pacing, input update, audio update, FPS counter update, handleEvents,
\* tick of the active panel, handlePanelChanges, render; an iteration that
\* reaches the loop test again without a fault has taken all of them once.
C13_IterationOrder ==
  /\ IsPrefix(steps, IterationOrder)
  /\ (pc \in {"loopTest", "save", "done"} /\ frame >= 1 => steps = IterationOrder)
  /\ (last = "pace" =>
        [i \in 1..3 |-> calls[Len(calls) - 3 + i].op]
          = <<"inputManager.update", "audioManager.update",
              "fpsCounter.updateFrameTime">>)
  /\ (pc = "inTick" => steps = SubSeq(IterationOrder, 1, 6))
  /\ (pc = "render" => steps = SubSeq(IterationOrder, 1, 7))

C13_Witness ==
  /\ pc = "loopTest"
  /\ frame = 2
  /\ running
  /\ polled = 2
  /\ steps = IterationOrder

\* What a render phase is to call on base panel b under sub-panels ss, when
\* the active panel reports a cursor (c = 1) or none (c = 0).
RenderOrder(b, ss, c) ==
  <<Call("render", b, 0, 0)>>
  \o [i \in 1..Len(ss) |-> Call("render", ss[i], 0, 0)]
  \o <<Call("renderSecondary", TopOr(ss, b), 0, 0),
       Call("getCurrentCursor", TopOr(ss, b), c, 0)>>
  \o (IF c = 1 THEN <<Call("drawCursor", TopOr(ss, b), 0, 0)>> ELSE <<>>)
  \o <<Call("present", Null, 0, 0)>>

\* C14: a render phase renders the base panel, then every sub-panel bottom
\* to top, then calls renderSecondary on the active panel only, draws the
\* cursor exactly when the active panel reports one, and presents last; a
\* render cut short by an exception has made an initial part of these calls.
C14_RenderOrder ==
  last = "render" =>
    \E c \in {0, 1} :
      /\ IsPrefix(calls, RenderOrder(panel, subPanels, c))
      /\ (pc # "crashed" => calls = RenderOrder(panel, subPanels, c))
      /\ \A i \in 1..Len(calls) :
           calls[i].op \in {"renderSecondary", "getCurrentCursor", "drawCursor"}
             => calls[i].panel = TopOr(subPanels, panel)

C14_Witness ==
  /\ last = "render"
  /\ pc = "loopTest"
  /\ Len(subPanels) = 2
  /\ calls = RenderOrder(panel, subPanels, 1)

\* The panels of the stack: the base panel and the sub-panels.
Installed(b, ss) == {b} \cup {ss[i] : i \in 1..Len(ss)}

\* C15: a stage call puts its own argument in the slot, replacing a panel
\* staged there before; the apply installs the panel the slot then holds (the
\* last one staged) as the base panel, or adds it as the one new sub-panel;
\* a panel replaced in its slot is never the base panel, never in the
\* sub-panel sequence and never staged again.
C15_LaterStageSupersedes ==
  /\ [][last' = "setPanel" =>
          /\ nextPanel' = made' /\ made' = made + 1
          /\ (nextPanel # Null => nextPanel \in superseded')]_vars
  /\ [][last' = "pushSubPanel" =>
          /\ nextSubPanel' = made' /\ made' = made + 1
          /\ (nextSubPanel # Null => nextSubPanel \in superseded')]_vars
  /\ [](Applied /\ pre.nextPanel # Null => panel = pre.nextPanel)
  /\ [](Applied /\ pre.nextSubPanel # Null =>
          /\ Len(subPanels)
               = Len(pre.subPanels) + 1 - Bool2Int(pre.requestedSubPanelPop)
          /\ subPanels[Len(subPanels)] = pre.nextSubPanel
          /\ Installed(panel, subPanels) \ Installed(pre.panel, pre.subPanels)
               \subseteq {pre.nextSubPanel, pre.nextPanel})
  /\ [](superseded \cap (Installed(panel, subPanels) \cup {nextPanel, nextSubPanel})
          = {})

C15_Witness ==
  /\ Applied
  /\ made = 3
  /\ superseded = {2}
  /\ pre.nextPanel = 3 /\ panel = 3
  /\ subPanels = <<>>

\* The panel that was active when the last apply began, and the one active now.
OldActive == TopOr(pre.subPanels, pre.panel)
NewActive == TopOr(subPanels, panel)

Notified(q, paused) ==
  \E i \in 1..Len(calls) : calls[i] = Call("onPauseChanged", q, Bool2Int(paused), 0)

\* C16 as stated: whenever an apply changes the active panel, the panel that
\* stops being active is told onPauseChanged(true) and the panel that becomes
\* active is told onPauseChanged(false).
C16_BothNotified ==
  Applied /\ OldActive # NewActive =>
    Notified(OldActive, TRUE) /\ Notified(NewActive, FALSE)

\* C16, amended: when an apply changes the active panel, the panel that stops
\* being active is told onPauseChanged(true) if it stays in the stack (a push
\* over it), and the panel that becomes active is told onPauseChanged(false)
\* if it was in the stack already (a pop exposed it); a panel that becomes
\* active by being newly installed (a pushed sub-panel, a new base panel) is
\* told nothing, and a popped panel is told nothing.
C16_SurvivorsNotified ==
  Applied =>
    /\ (OldActive # NewActive =>
          /\ (OldActive \in Installed(panel, subPanels) => Notified(OldActive, TRUE))
          /\ (NewActive \in Installed(pre.panel, pre.subPanels)
                => Notified(NewActive, FALSE))
          /\ (NewActive \notin Installed(pre.panel, pre.subPanels)
                => \A i \in 1..Len(calls) :
                     calls[i].op = "onPauseChanged" => calls[i].panel # NewActive))
    /\ (pre.requestedSubPanelPop =>
          \A i \in 1..Len(calls) :
            calls[i].op = "onPauseChanged" => calls[i].panel # OldActive)

C16_Witness ==
  /\ Applied
  /\ OldActive # NewActive
  /\ pre.nextPanel # Null /\ pre.subPanels = <<>> /\ subPanels = <<>>
  /\ calls = <<Call("replace", NewActive, 0, 0), Call("destroy", OldActive, 0, 0)>>

\* The onPauseChanged(false) calls of the last step: those of the pop step.
Unpauses == SelectSeq(calls, LAMBDA c : c.op = "onPauseChanged" /\ c.a = 0)

\* C17 as stated: a pop that empties the sub-panel sequence sends no
\* onPauseChanged(false), the base panel receives none.
C17_NoUnpauseWhenEmptied ==
  Applied /\ pre.requestedSubPanelPop /\ Len(pre.subPanels) = 1 => Unpauses = <<>>

\* C17, amended: the pop step sends onPauseChanged(false) once, whether or
\* not the sequence is still nonempty after the removal, to the panel active
\* after it: the new top sub-panel, or the base panel when the pop has
\* emptied the sequence; an apply without a staged pop sends none.
C17_UnpauseAfterEveryPop ==
  Applied =>
    IF pre.requestedSubPanelPop
      THEN /\ Unpauses = <<Call("onPauseChanged",
                                IF Len(pre.subPanels) > 1
                                  THEN pre.subPanels[Len(pre.subPanels) - 1]
                                  ELSE pre.panel,
                                0, 0)>>
           /\ calls[3] = Unpauses[1]
      ELSE Unpauses = <<>>

C17_Witness ==
  /\ Applied
  /\ pre.requestedSubPanelPop /\ Len(pre.subPanels) = 1
  /\ pre.nextSubPanel = Null /\ pre.nextPanel = Null
  /\ subPanels = <<>>
  /\ calls[3] = Call("onPauseChanged", panel, 0, 0)

Destroys(cs) ==
  LET ds == CallsTo(cs, "destroy") IN {ds[i].panel : i \in 1..Len(ds)}

\* C18 as stated: only handlePanelChanges destroys a panel; no stage call
\* does, also not of a staged panel a second stage call replaces.
C18_OnlyApplyDestroys ==
  Destroys(calls) # {} => Applied

\* C18, amended: a panel owned by the stack (the base panel, a sub-panel) is
\* destroyed only inside handlePanelChanges; a staged panel that a second
\* setPanel or pushSubPanel replaces is destroyed at once, inside that stage
\* call; popSubPanel and the other steps destroy nothing.
C18_StackPanelsDieInApply ==
  /\ [][destroyed' # destroyed =>
          /\ destroyed' = destroyed \cup Destroys(calls')
          /\ last' \in {"handlePanelChanges", "setPanel", "pushSubPanel"}
          /\ (last' = "setPanel" => destroyed' \ destroyed = {nextPanel})
          /\ (last' = "pushSubPanel" => destroyed' \ destroyed = {nextSubPanel})
          /\ (last' # "handlePanelChanges" =>
                (destroyed' \ destroyed) \cap Installed(panel, subPanels) = {})]_vars
  /\ [][last' \in {"setPanel", "pushSubPanel"} =>
          Destroys(calls') = superseded' \ superseded]_vars
  /\ [](superseded \subseteq destroyed)
  /\ [](destroyed \cap (Installed(panel, subPanels) \cup {nextPanel, nextSubPanel})
          = {})

C18_Witness ==
  /\ last = "pushSubPanel"
  /\ InCallback
  /\ calls = <<Call("destroy", 2, 0, 0)>>
  /\ nextSubPanel = 3
  /\ destroyed = {2} /\ superseded = {2}

\* C19: with a pop and a push staged for one apply, the panel the pop exposes
\* gets onPauseChanged(false) and then onPauseChanged(true), nobody else is
\* notified (the popped panel in particular), and the sub-panel sequence is
\* as long as before with the pushed panel in place of the popped one.
C19_PopThenPush ==
  Applied /\ pre.requestedSubPanelPop /\ pre.nextSubPanel # Null =>
    LET exposed == IF Len(pre.subPanels) > 1
                     THEN pre.subPanels[Len(pre.subPanels) - 1]
                     ELSE pre.panel
    IN /\ CallsTo(calls, "onPauseChanged")
            = <<Call("onPauseChanged", exposed, 0, 0),
                Call("onPauseChanged", exposed, 1, 0)>>
       /\ exposed # pre.subPanels[Len(pre.subPanels)]
       /\ Len(subPanels) = Len(pre.subPanels)
       /\ subPanels = [pre.subPanels EXCEPT ![Len(pre.subPanels)] = pre.nextSubPanel]
       /\ pre.subPanels[Len(pre.subPanels)] \in destroyed

C19_Witness ==
  /\ Applied
  /\ pre.requestedSubPanelPop /\ pre.nextSubPanel = 4
  /\ pre.subPanels = <<2, 3>>
  /\ subPanels = <<2, 4>>
  /\ CallsTo(calls, "onPauseChanged")
       = <<Call("onPauseChanged", 2, 0, 0), Call("onPauseChanged", 2, 1, 0)>>

\* C20: whenever a pop is staged there is a sub-panel to pop, so the pop
\* step never calls pop_back on an empty sequence.
C20_StagedPopHasSubPanel ==
  /\ (requestedSubPanelPop => Len(subPanels) > 0)
  /\ fault # "undefined behaviour"
  /\ (Applied /\ pre.requestedSubPanelPop =>
        /\ Len(pre.subPanels) > 0
        /\ calls[1] = Call("pop_back", pre.subPanels[Len(pre.subPanels)], 0, 0))

C20_Witness ==
  /\ requestedSubPanelPop
  /\ pc = "applyEvent"
  /\ Len(subPanels) = 1
  /\ nextSubPanel # Null /\ nextPanel # Null

====
